---- MODULE Spec2Model ----
(***************************************************************************)
(* Model of the API Gateway lambda handler pipeline (APIGLambdaHandler),   *)
(* its two-phase Injector, and the JSON / schema-validation conversions    *)
(* the pipeline applies to request and response bodies.                    *)
(*                                                                         *)
(* JavaScript runs a handler to completion between two awaits, so every    *)
(* action below is the code between one await and the next.                *)
(***************************************************************************)
EXTENDS Integers, Sequences, FiniteSets, TLC

\* ------------------------------------------------------------------ bounds
\* Handler invocations that may overlap in one process (SpecConc).
MaxInv == 2
\* Calls of Injector.build() in one process.
MaxBuilds == 2
\* Paths (routeAmounts) of one swap route, and pools of one path.
MaxPaths == 2
MaxHops == 2
\* Page requests of one run of the pool-cache job that find pools, and pools
\* in one page.
MaxRequests == 3
MaxPageLen == 2

\* ------------------------------------------------------------ JS values
\* A JavaScript value: an object (its entries in insertion order), a scalar,
\* or undefined.  An entry is a key with a typed value.
Entry(k, ty, v) == [k |-> k, ty |-> ty, v |-> v]

JSObject(entries) == [kind |-> "object", entries |-> entries, ty |-> "", v |-> ""]

JSScalar(ty, v) == [kind |-> "scalar", entries |-> <<>>, ty |-> ty, v |-> v]

Undefined == [kind |-> "undefined", entries |-> <<>>, ty |-> "", v |-> ""]

\* The keys of an object, as a set.
KeysOf(value) == {value.entries[n].k : n \in 1..Len(value.entries)}

\* The entry of an object under key k (the key is present).
Get(value, k) ==
  LET n == CHOOSE m \in 1..Len(value.entries) : value.entries[m].k = k
  IN  value.entries[n]

\* ------------------------------------------------------------ JSON text
\* A JSON text is a sequence of tokens.  "text" is any run of characters
\* that is not JSON (an error message, a fixed string).
LB == [t |-> "{", k |-> "", ty |-> "", v |-> ""]
RB == [t |-> "}", k |-> "", ty |-> "", v |-> ""]
COMMA == [t |-> ",", k |-> "", ty |-> "", v |-> ""]
Pair(e) == [t |-> "pair", k |-> e.k, ty |-> e.ty, v |-> e.v]
Lit(ty, v) == [t |-> "lit", k |-> "", ty |-> ty, v |-> v]
Text(k, v) == [t |-> "text", k |-> k, ty |-> "", v |-> v]

\* obj[k] = v on an insertion-ordered object: a key already present keeps its
\* position and takes the new value.
SetEntry(entries, e) ==
  IF \E n \in 1..Len(entries) : entries[n].k = e.k
    THEN [n \in 1..Len(entries) |-> IF entries[n].k = e.k THEN e ELSE entries[n]]
    ELSE Append(entries, e)

\* The members of an object between the braces: pair ("," pair)*.
RECURSIVE ParseMembers(_, _)
ParseMembers(toks, acc) ==
  IF Len(toks) = 0 \/ toks[1].t # "pair"
    THEN [ok |-> FALSE, entries |-> <<>>]
    ELSE LET acc2 == SetEntry(acc, Entry(toks[1].k, toks[1].ty, toks[1].v))
         IN  IF Len(toks) = 1
               THEN [ok |-> TRUE, entries |-> acc2]
               ELSE IF toks[2].t # ","
                 THEN [ok |-> FALSE, entries |-> <<>>]
                 ELSE ParseMembers(SubSeq(toks, 3, Len(toks)), acc2)

SyntaxError == [ok |-> FALSE, value |-> Undefined]

\* JSON.parse: ok = FALSE is the SyntaxError it throws.
JSONparse(text) ==
  IF Len(text) = 0 THEN SyntaxError
  ELSE IF Len(text) = 1
    THEN IF text[1].t = "lit"
           THEN [ok |-> TRUE, value |-> JSScalar(text[1].ty, text[1].v)]
           ELSE SyntaxError
  ELSE IF text[1].t # "{" \/ text[Len(text)].t # "}" THEN SyntaxError
  ELSE IF Len(text) = 2 THEN [ok |-> TRUE, value |-> JSObject(<<>>)]
  ELSE LET m == ParseMembers(SubSeq(text, 2, Len(text) - 1), <<>>)
       IN  IF m.ok THEN [ok |-> TRUE, value |-> JSObject(m.entries)]
                   ELSE SyntaxError

RECURSIVE StringifyMembers(_)
StringifyMembers(entries) ==
  IF Len(entries) = 0 THEN <<>>
  ELSE IF entries[1].ty = "undefined" THEN StringifyMembers(Tail(entries))
  ELSE LET rest == StringifyMembers(Tail(entries))
       IN  IF Len(rest) = 0 THEN <<Pair(entries[1])>>
                            ELSE <<Pair(entries[1]), COMMA>> \o rest

\* JSON.stringify: properties whose value is undefined are left out.
JSONstringify(value) ==
  IF value.kind = "object" THEN <<LB>> \o StringifyMembers(value.entries) \o <<RB>>
  ELSE IF value.kind = "scalar" THEN <<Lit(value.ty, value.v)>>
  ELSE <<>>

\* ------------------------------------------------------- schema validation
\* A Joi object schema: its declared keys, in order.
KeySpec(k, ty, required) == [k |-> k, ty |-> ty, required |-> required]

RequestSchema ==
  << KeySpec("amount", "string", TRUE), KeySpec("algorithm", "string", FALSE) >>

ResponseSchema == << KeySpec("quote", "string", TRUE) >>

NoError == [k |-> "", v |-> ""]

Message(k, v) == [k |-> k, v |-> v]

Declared(schema) == {schema[n].k : n \in 1..Len(schema)}

Present(value, k) == k \in KeysOf(value) /\ Get(value, k).ty # "undefined"

\* The first error among the declared keys, in schema order (abortEarly).
RECURSIVE KeyError(_, _)
KeyError(value, schema) ==
  IF Len(schema) = 0 THEN NoError
  ELSE LET s == schema[1]
       IN  IF ~Present(value, s.k)
             THEN IF s.required THEN Message(s.k, "is required")
                                ELSE KeyError(value, Tail(schema))
             ELSE IF Get(value, s.k).ty # s.ty
               THEN Message(s.k, "must be a " \o s.ty)
               ELSE KeyError(value, Tail(schema))

RECURSIVE Keep(_, _)
Keep(entries, keys) ==
  IF Len(entries) = 0 THEN <<>>
  ELSE IF entries[1].k \in keys THEN <<entries[1]>> \o Keep(Tail(entries), keys)
  ELSE Keep(Tail(entries), keys)

\* schema.validate(value, {allowUnknown, stripUnknown}): an object schema that
\* is not itself required accepts undefined; unknown keys are
\* deleted from the value when stripUnknown is set, whatever allowUnknown is;
\* left in place they are an error unless allowUnknown is set.
JoiValidate(value, schema, allowUnknown, stripUnknown) ==
  IF value.kind = "undefined" THEN [error |-> NoError, value |-> value]
  ELSE IF value.kind # "object"
    THEN [error |-> Message("value", "must be of type object"), value |-> value]
  ELSE LET err == KeyError(value, schema)
           unknown == KeysOf(value) \ Declared(schema)
       IN  IF err # NoError THEN [error |-> err, value |-> value]
           ELSE IF stripUnknown
             THEN [error |-> NoError,
                   value |-> JSObject(Keep(value.entries, Declared(schema)))]
           ELSE IF unknown # {} /\ ~allowUnknown
             THEN [error |-> Message(CHOOSE k \in unknown : TRUE, "is not allowed"),
                   value |-> value]
           ELSE [error |-> NoError, value |-> value]

\* ------------------------------------------------------------ the handler
\* An HTTP result as API Gateway receives it.
Result(statusCode, body) == [kind |-> "response", statusCode |-> statusCode, body |-> body]

\* The handler's promise rejected: no result reaches the caller.
Rejected == [kind |-> "exception", statusCode |-> 0, body |-> <<>>]

NoResult == [kind |-> "none", statusCode |-> 0, body |-> <<>>]

INTERNAL_ERROR ==
  Result(500, JSONstringify(JSObject(<<Entry("errorCode", "string", "INTERNAL_ERROR"),
                                       Entry("detail", "string", "Unexpected error.")>>)))

\* event.body ?? '{}': a missing body defaulted to an empty object.
BodyOrEmptyDefaultObject(event) == IF event.bodyNull THEN <<LB, RB>> ELSE event.body

\* event.body ?? ''
BodyOrEmpty(event) == IF event.bodyNull THEN <<>> ELSE event.body

ParseErrorResponse == Result(422, <<>>)

\* A 400 that hides the validator's message behind a fixed text.
RequestErrorResponseGeneric(message) == Result(400, <<Text("", "Bad request")>>)

RequestErrorResponse(message) == Result(400, <<Text(message.k, message.v)>>)

\* A 500 that carries the validator's message, as the request direction does.
ResponseErrorResponseLeaky(message) == Result(500, <<Text(message.k, message.v)>>)

ResponseErrorResponse(message) == Result(500, <<Text("", "Internal error")>>)

\* Request validation that allows unknown keys and leaves them in place.
RequestValidateOptionsKeepUnknown == [allowUnknown |-> TRUE, stripUnknown |-> FALSE]

\* The options bodySchema.validate is called with, per direction.
RequestValidateOptions == [allowUnknown |-> TRUE, stripUnknown |-> TRUE]

\* Response validation that allows unknown keys and leaves them in place.
ResponseValidateOptionsKeepUnknown == [allowUnknown |-> TRUE, stripUnknown |-> FALSE]

ResponseValidateOptions == [allowUnknown |-> TRUE, stripUnknown |-> TRUE]

Validation(state, value, errorResponse, parsed, message) ==
  [state |-> state, value |-> value, errorResponse |-> errorResponse,
   parsed |-> parsed, message |-> message]

NoValidation == Validation("none", Undefined, NoResult, Undefined, NoError)

\* parseAndValidateRequest(event) under a handler whose requestBodySchema()
\* returns null ("null"), returns a schema ("schema") or throws ("throws").
\* state "threw" is the exception the caller catches.
parseAndValidateRequest(event, schemaMode) ==
  LET parse == JSONparse(BodyOrEmpty(event))
      body == parse.value
      res == JoiValidate(body, RequestSchema, RequestValidateOptions.allowUnknown,
                         RequestValidateOptions.stripUnknown)
  IN  IF ~parse.ok
        THEN Validation("invalid", Undefined, ParseErrorResponse, Undefined, NoError)
      ELSE IF schemaMode = "throws"
        THEN Validation("threw", Undefined, NoResult, body, NoError)
      ELSE IF schemaMode = "null"
        THEN Validation("valid", body, NoResult, body, NoError)
      ELSE IF res.error # NoError
        THEN Validation("invalid", Undefined, RequestErrorResponse(res.error), body, res.error)
      ELSE Validation("valid", res.value, NoResult, body, NoError)

\* A handler that validates against the response schema even where
\* responseBodySchema() returned null.
parseAndValidateResponseAlways(body, schemaMode) ==
  LET res == JoiValidate(body, ResponseSchema, TRUE, TRUE)
  IN  IF schemaMode = "throws"
        THEN Validation("threw", Undefined, NoResult, body, NoError)
      ELSE IF res.error # NoError
        THEN Validation("invalid", Undefined, Result(500, <<Text("", "Internal error")>>),
                        body, res.error)
      ELSE Validation("valid", res.value, NoResult, body, NoError)

\* parseAndValidateResponse(body) under a handler whose responseBodySchema()
\* returns null, returns a schema or throws.
parseAndValidateResponse(body, schemaMode) ==
  LET res == JoiValidate(body, ResponseSchema, ResponseValidateOptions.allowUnknown,
                         ResponseValidateOptions.stripUnknown)
  IN  IF schemaMode = "throws"
        THEN Validation("threw", Undefined, NoResult, body, NoError)
      ELSE IF schemaMode = "null"
        THEN Validation("valid", body, NoResult, body, NoError)
      ELSE IF res.error # NoError
        THEN Validation("invalid", Undefined, ResponseErrorResponse(res.error), body, res.error)
      ELSE Validation("valid", res.value, NoResult, body, NoError)

\* A handler that never takes the early return of an invalid validation.
IsInvalidNever(validation) == FALSE

\* if (validation.state == 'invalid') return validation.errorResponse
IsInvalid(validation) == validation.state = "invalid"

\* An isError that knows 200 only.
isErrorUnless200(result) == result.statusCode # 200

\* isError(result): every status other than 200 and 202 is an ErrorResponse.
isError(result) == result.statusCode # 200 /\ result.statusCode # 202

\* { statusCode, body: JSON.stringify({ errorCode }) }: the detail is dropped.
ErrorPassThroughNoDetail(result) ==
  Result(result.statusCode,
         JSONstringify(JSObject(<<Entry("errorCode", "string", result.errorCode)>>)))

\* { statusCode, body: JSON.stringify({ detail, errorCode }) }
ErrorPassThrough(result) ==
  Result(result.statusCode,
         JSONstringify(JSObject(<<Entry("detail",
                                        IF result.detailDefined THEN "string" ELSE "undefined",
                                        result.detail),
                                  Entry("errorCode", "string", result.errorCode)>>)))

\* ------------------------------------------------------------------ inputs
\* Request bodies: the declared field amount absent, a string or a number,
\* with or without a field the schema does not declare.
AmountChoices ==
  { <<>>, <<Entry("amount", "string", "50")>>, <<Entry("amount", "number", "50")>> }

ExtraChoices == { <<>>, <<Entry("extra", "string", "x")>> }

RequestObjects == { JSObject(a \o e) : a \in AmountChoices, e \in ExtraChoices }

Prefixes(text) == { SubSeq(text, 1, n) : n \in 0..(Len(text) - 1) }

Event(bodyNull, body) == [bodyNull |-> bodyNull, body |-> body]

NoEvent == Event(TRUE, <<>>)

\* Events: no body, a JSON object, a JSON scalar, a JSON text cut short, and
\* text that is not JSON.
Events ==
  { Event(TRUE, <<>>) }
    \cup { Event(FALSE, JSONstringify(o)) : o \in RequestObjects }
    \cup { Event(FALSE, <<Lit("number", "50")>>), Event(FALSE, <<Text("", "tokenIn=MKR")>>) }
    \cup { Event(FALSE, t) : t \in UNION { Prefixes(JSONstringify(o)) : o \in RequestObjects } }

\* What handleRequest may produce: a Response, an ErrorResponse, an exception.
HandleResult(outcome, statusCode, body, errorCode, detailDefined, detail) ==
  [outcome |-> outcome, statusCode |-> statusCode, body |-> body,
   errorCode |-> errorCode, detailDefined |-> detailDefined, detail |-> detail]

NoHandleResult == HandleResult("none", 0, Undefined, "", FALSE, "")

SuccessStatusCodes == {200, 202}

ErrorStatusCodes == {400, 403, 404, 408, 409, 500}

QuoteChoices ==
  { <<>>, <<Entry("quote", "string", "47")>>, <<Entry("quote", "number", "47")>> }

LeakChoices == { <<>>, <<Entry("poolSecret", "string", "x")>> }

ResponseObjects == { JSObject(q \o l) : q \in QuoteChoices, l \in LeakChoices }

HandleResults ==
  { HandleResult("success", sc, b, "", FALSE, "") :
      sc \in SuccessStatusCodes, b \in ResponseObjects }
    \cup { HandleResult("error", sc, Undefined, "NO_ROUTE", FALSE, "") :
             sc \in ErrorStatusCodes }
    \cup { HandleResult("error", sc, Undefined, "NO_ROUTE", TRUE, "No route found") :
             sc \in ErrorStatusCodes }
    \cup { HandleResult("throw", 0, Undefined, "", FALSE, "") }

SchemaModes == {"null", "schema", "throws"}

\* ------------------------------------------------------------------- state
\* ------------------------------------------------------------ route graph
\* Number.prototype.toString / JSBI.toString: the decimal digits.
Digits == <<"0", "1", "2", "3", "4", "5", "6", "7", "8", "9">>

RECURSIVE toString(_)
toString(n) ==
  IF n < 10 THEN Digits[n + 1]
            ELSE toString(n \div 10) \o Digits[(n % 10) + 1]

Token(address, chainId, symbol, decimals) ==
  [address |-> address, chainId |-> chainId, symbol |-> symbol, decimals |-> decimals]

NoToken == Token("", 0, "", 0)

\* The routes of one quote go from the token sold to the token bought.  Token
\* objects of different paths may describe one address differently.
TokensIn == { Token("0xA", 1, "WETH", 18), Token("0xA", 1, "ETH", 8) }

TokensOut == { Token("0xC", 1, "DAI", 18) }

TokensBetween ==
  { Token("0xB", 1, "USDC", 6), Token("0xB", 1, "USDC.e", 9), Token("0xD", 1, "WBTC", 8) }

Pool(tokenA, tokenB, fee) == [token0 |-> tokenA, token1 |-> tokenB, fee |-> fee]

\* poolProvider.getPoolAddress(token0, token1, fee).poolAddress: fixed by the
\* pair and the fee.
getPoolAddress(token0, token1, fee) ==
  [pair |-> {token0.address, token1.address}, fee |-> fee]

\* A route: tokenPath and the pools between its consecutive tokens.
Route(tokenPath) ==
  [tokenPath |-> tokenPath,
   pools |-> [k \in 1..(Len(tokenPath) - 1) |-> Pool(tokenPath[k], tokenPath[k + 1], 3000)]]

RouteAmount(route, amount, quote) ==
  [route |-> route, amount |-> amount, quote |-> quote]

Between ==
  UNION { { m \in [1..n -> TokensBetween] :
              \A k \in 1..(n - 1) : m[k].address # m[k + 1].address } :
          n \in 0..(MaxHops - 1) }

TokenPaths ==
  { <<a>> \o m \o <<c>> : a \in TokensIn, m \in Between, c \in TokensOut }

\* The routeAmounts of a swap route: 1 to MaxPaths paths of 1 to MaxHops
\* pools, each with its share of the amount and its quote.
RouteAmountsChoices ==
  UNION { { [q \in 1..n |-> RouteAmount(Route(paths[q]), 50 + q, 70 + q)] :
              paths \in [1..n -> TokenPaths] } :
          n \in 1..MaxPaths }

TradeTypes == {"exactIn", "exactOut"}

\* nodes.push({ type: 'token', id, chainId, symbol, decimals })
TokenNode(token, decimals) ==
  [type |-> "token", id |-> token.address, chainId |-> token.chainId,
   symbol |-> token.symbol, decimals |-> toString(decimals)]

\* An optional string: undefined, or the string.
NotSet == [defined |-> FALSE, v |-> ""]

Set(str) == [defined |-> TRUE, v |-> str]

\* A graph that gives every hop an amountIn.
edgeAmountInEveryHop(type, i, amount, quote) ==
  IF type = "exactIn" THEN Set(toString(amount)) ELSE Set(toString(quote))

\* let edgeAmountIn = undefined; if (i == 0) { ... }
edgeAmountIn(type, i, amount, quote) ==
  IF i = 0
    THEN IF type = "exactIn" THEN Set(toString(amount)) ELSE Set(toString(quote))
    ELSE NotSet

\* let edgeAmountOut = undefined; if (i == pools.length - 1) { ... }
edgeAmountOut(type, i, length, amount, quote) ==
  IF i = length - 1
    THEN IF type = "exactIn" THEN Set(toString(quote)) ELSE Set(toString(amount))
    ELSE NotSet

\* edges.push({ type: 'v3-pool', id, inId, outId, fee, ..., amountIn, amountOut });
\* liquidity, sqrtRatioX96 and tickCurrent are copied from the pool like fee.
PoolEdge(pool, inToken, outToken, amountIn, amountOut) ==
  [type |-> "v3-pool", id |-> getPoolAddress(pool.token0, pool.token1, pool.fee),
   inId |-> inToken.address, outId |-> outToken.address,
   fee |-> toString(pool.fee), amountIn |-> amountIn, amountOut |-> amountOut]

\* A seen-set that never answers yes.
hasNever(tokenSet, address) == FALSE

\* tokenSet.has(address)
has(tokenSet, address) == address \in tokenSet

\* An array that takes new elements at the front.
unshift(array, element) == <<element>> \o array

\* array.push(element)
push(array, element) == Append(array, element)

\* The locals of the route graph assembly in QuoteHandler.handleRequest.
NoAssembly ==
  [pc |-> "idle", type |-> "", routeAmounts |-> <<>>, p |-> 0, i |-> 0,
   prevToken |-> NoToken, nodes |-> <<>>, edges |-> <<>>, tokenSet |-> {}]

\* ------------------------------------------------------------------ quote
\* Ether.onChain(chainId): the native currency, which is no token.
Ether == Token("native", 1, "ETH", 18)

\* tokenListProvider: the tokens of the token list.
TokenList == { Token("0xA", 1, "WETH", 18), Token("0xC", 1, "DAI", 18) }

\* tokenProvider.getTokens: the tokens found on chain.
ChainTokens == TokenList \cup { Token("0xD", 1, "WBTC", 8) }

\* What a request may name as tokenInAddress / tokenOutAddress.
AddressRaws == {"0xA", "0xC", "0xD", "0xZ"}

TokenRaws == AddressRaws \cup {"ETH", "DAI", "NOPE"}

\* isAddress(s): s.length == 42 && s.startsWith('0x')
isAddress(raw) == raw \in AddressRaws

\* getTokenByAddress / getTokenBySymbol: the token, or undefined (NoToken).
Lookup(tokens, field, raw) ==
  LET found == { t \in tokens : t[field] = raw }
  IN  IF found = {} THEN NoToken ELSE CHOOSE t \in found : TRUE

\* tryTokenList(tokenRaw, chainId)
tryTokenList(raw) ==
  IF raw = "ETH" THEN Ether
  ELSE IF isAddress(raw) THEN Lookup(TokenList, "address", raw)
  ELSE Lookup(TokenList, "symbol", raw)

\* currencyIn.equals(currencyOut)
equals(a, b) == a.chainId = b.chainId /\ a.address = b.address

\* What handleRequest returns or throws.
QuoteResult(outcome, statusCode, errorCode) ==
  [outcome |-> outcome, statusCode |-> statusCode, errorCode |-> errorCode]

NoQuoteResult == QuoteResult("none", 0, "")

\* A handler that tests the output token before the input token.
DomainErrorOutFirst(currencyIn, currencyOut) ==
  IF currencyOut = NoToken THEN QuoteResult("error", 400, "TOKEN_OUT_INVALID")
  ELSE IF currencyIn = NoToken THEN QuoteResult("error", 400, "TOKEN_IN_INVALID")
  ELSE IF equals(currencyIn, currencyOut)
    THEN QuoteResult("error", 400, "TOKEN_IN_OUT_SAME")
  ELSE NoQuoteResult

\* if (!currencyIn) ... if (!currencyOut) ... if (currencyIn.equals(currencyOut)) ...
DomainError(currencyIn, currencyOut) ==
  IF currencyIn = NoToken THEN QuoteResult("error", 400, "TOKEN_IN_INVALID")
  ELSE IF currencyOut = NoToken THEN QuoteResult("error", 400, "TOKEN_OUT_INVALID")
  ELSE IF equals(currencyIn, currencyOut)
    THEN QuoteResult("error", 400, "TOKEN_IN_OUT_SAME")
  ELSE NoQuoteResult

\* The locals of a QuoteHandler.handleRequest call, and how often it called
\* the router.
NoQuote ==
  [pc |-> "idle", tokenInRaw |-> "", tokenOutRaw |-> "", type |-> "",
   currencyIn |-> NoToken, currencyOut |-> NoToken, resolved |-> FALSE,
   routerCalls |-> 0, swapRoute |-> "none", result |-> NoQuoteResult]

\* --------------------------------------------------------------- pool cache
\* The locals of a run of the pool-cache job, the offsets it requested, the
\* pages it received and the putObject calls it made.
PAGE_SIZE == 1000

\* The object under POOL_CACHE_KEY: absent, or its body.
NoObject == [exists |-> FALSE, body |-> <<>>]

\* before is the object as the run found it, writes the times it stored one.
NoJob ==
  [pc |-> "idle", skip |-> 0, pools |-> <<>>, poolsPage |-> <<>>,
   offsets |-> <<>>, pages |-> <<>>, puts |-> 0, writes |-> 0,
   requestFailed |-> FALSE, before |-> NoObject]

\* A pool of the subgraph (of its fields, id).
SubgraphPool(id) == JSObject(<<Entry("id", "string", id)>>)

\* The subgraph's answer to pools(first: PAGE_SIZE, skip): the n pools that
\* follow the first skip ones.
Page(skip, n) == [k \in 1..n |-> SubgraphPool(toString(skip + k - 1))]

LSQ == [t |-> "[", k |-> "", ty |-> "", v |-> ""]
RSQ == [t |-> "]", k |-> "", ty |-> "", v |-> ""]

RECURSIVE StringifyElements(_)
StringifyElements(array) ==
  IF Len(array) = 0 THEN <<>>
  ELSE IF Len(array) = 1 THEN JSONstringify(array[1])
  ELSE JSONstringify(array[1]) \o <<COMMA>> \o StringifyElements(Tail(array))

\* JSON.stringify(pools)
StringifyArray(array) == <<LSQ>> \o StringifyElements(array) \o <<RSQ>>

\* A loop that asks for the same offset again.
skipSame(skip) == skip

\* skip = skip + PAGE_SIZE
skipNext(skip) == skip + PAGE_SIZE

\* A job that saves whatever it has.
nothingNever(pools) == FALSE

\* !pools || pools.length == 0
nothing(pools) == Len(pools) = 0

VARIABLES
  cacheObject,        \* S3: the object under POOL_CACHE_BUCKET/POOL_CACHE_KEY
  job,                \* pool-cache handler: the run in flight
  quote,              \* QuoteHandler.handleRequest: the call in flight
  graph,              \* QuoteHandler.handleRequest: the route graph being assembled
  cfg,                \* what requestBodySchema() / responseBodySchema() do
  containerInjected,  \* Injector.containerInjected: 0 is undefined, b the object build b made
  buildState,         \* each build() call: notcalled, awaiting, completed, failed
  inv                 \* the handler invocations in flight: locals and position

vars == <<cacheObject, job, quote, graph, cfg, containerInjected, buildState, inv>>

\* A Lambda execution environment serves one invocation at a time: Spec has one
\* invocation in flight, invoked again and again.  SpecConc is a host that
\* lets MaxInv invocations overlap in the process.
Sequential == {1}

Overlapping == 1..MaxInv

Invocations == DOMAIN inv

Builds == 1..MaxBuilds

\* ----------------------------------------------------------------- loggers
\* A logger is known by who made it and in which invocation.
Logger(origin, owner) == [origin |-> origin, owner |-> owner]

NoLogger == Logger("none", 0)

\* bunyan.createLogger(...) at the start of invocation i.
createLogger(i) == Logger("handler", i)

\* A log record: level, the logger written to, the message, and the caught
\* exception in err, named by the stage that threw it ("" when none).
LogEntry(level, logger, msg, err) ==
  [level |-> level, logger |-> logger, msg |-> msg, err |-> err]

\* log.info(..., msg)
LogInfo(log, msg) == LogEntry("info", log, msg, "")

\* A catch block that reports its exception at info level and without it.
LogErrorSwallowed(log, err, msg) == LogEntry("info", log, msg, "")

\* log.error({ err }, msg)
LogError(log, err, msg) == LogEntry("error", log, msg, err)

\* The object the getRequestInjected(...) call of invocation i resolves to:
\* built for that call, with the logger it supplies.
RequestInjected(i) == [owner |-> i, log |-> Logger("requestInjected", i)]

NoRequestInjected == [owner |-> 0, log |-> NoLogger]

\* A handler that keeps the logger it created.
LogKept(log, requestInjected) == log

\* ({ log } = requestInjected)
LogFrom(log, requestInjected) == requestInjected.log

\* A handler that keeps request and request dependencies where every
\* invocation of the process reads them: an invocation calling handleRequest
\* while another one has its dependencies built hands over that one's.
ParamsShared(request, container, requestInjected) ==
  LET others == { j \in DOMAIN inv : inv[j].requestInjected }
      j == CHOOSE j \in others : TRUE
  IN  IF others = {}
        THEN [request |-> request, containerInjected |-> container,
              requestInjected |-> requestInjected]
        ELSE [request |-> inv[j].request, containerInjected |-> container,
              requestInjected |-> inv[j].rinj]

\* The parameters handed to handleRequest.
Params(request, container, requestInjected) ==
  [request |-> request, containerInjected |-> container,
   requestInjected |-> requestInjected]

NoParams ==
  [request |-> Undefined, containerInjected |-> 0,
   requestInjected |-> NoRequestInjected]

Idle ==
  [pc |-> "idle", event |-> NoEvent, requestValidation |-> NoValidation,
   request |-> Undefined, containerInjected |-> 0, lookup |-> "none",
   requestInjected |-> FALSE, handleRequestResult |-> NoHandleResult,
   statusCode |-> 0, body |-> Undefined, responseValidation |-> NoValidation,
   result |-> NoResult, stages |-> <<>>, thrown |-> <<>>,
   log |-> NoLogger, logs |-> <<>>, rinj |-> NoRequestInjected,
   params |-> NoParams]

InitOver(slots) ==
  /\ cacheObject = NoObject
  /\ job = NoJob
  /\ quote = NoQuote
  /\ graph = NoAssembly
  /\ cfg \in [req : SchemaModes, resp : SchemaModes]
  /\ containerInjected = 0
  /\ buildState = [b \in Builds |-> "notcalled"]
  /\ inv = [i \in slots |-> Idle]

Init == InitOver(Sequential)

\* The overlapping host is checked for handlers whose schema getters return:
\* one with both schemas and one with none.
ConcSchemaModes == SchemaModes \ {"throws"}

InitConc ==
  /\ InitOver(Overlapping)
  /\ cfg \in { [req |-> m, resp |-> m] : m \in ConcSchemaModes }

\* --------------------------------------------------------------- Injector
\* build() is called: buildContainerInjected() starts.
BuildCall(b) ==
  /\ buildState[b] = "notcalled"
  /\ \A c \in Builds : c < b => buildState[c] # "notcalled"
  /\ buildState' = [buildState EXCEPT ![b] = "awaiting"]
  /\ UNCHANGED <<cacheObject, job, quote, graph, cfg, containerInjected, inv>>

\* buildContainerInjected() resolved: this.containerInjected = <the new object>.
BuildResolve(b) ==
  /\ buildState[b] = "awaiting"
  /\ buildState' = [buildState EXCEPT ![b] = "completed"]
  /\ containerInjected' = b
  /\ UNCHANGED <<cacheObject, job, quote, graph, cfg, inv>>

\* buildContainerInjected() rejected: build() rejects, nothing is assigned.
BuildReject(b) ==
  /\ buildState[b] = "awaiting"
  /\ buildState' = [buildState EXCEPT ![b] = "failed"]
  /\ UNCHANGED <<cacheObject, job, quote, graph, cfg, containerInjected, inv>>

\* getContainerInjected(): rejects while containerInjected is undefined.
getContainerInjected(container) ==
  IF container = 0 THEN [lookup |-> "rejected", value |-> 0]
                   ELSE [lookup |-> "resolved", value |-> container]

\* ---------------------------------------------------------------- handler
\* The stages parseAndValidateRequest goes through for an event.
RequestStages(event) ==
  IF JSONparse(BodyOrEmpty(event)).ok THEN <<"parse", "validateRequest">>
                                      ELSE <<"parse">>

\* return result, after the log records a catch block wrote.
Return(i, result, thrownAt, written) ==
  inv' = [inv EXCEPT ![i].pc = "returned", ![i].result = result,
                     ![i].thrown = inv[i].thrown \o thrownAt,
                     ![i].logs = inv[i].logs \o written]

\* The handler is invoked: logger created, parseAndValidateRequest(event) called.
Invoke(i, event) ==
  /\ inv[i].pc = "idle"
  /\ inv' = [inv EXCEPT ![i].pc = "awaitRequestValidation",
                        ![i].event = event,
                        ![i].requestValidation = parseAndValidateRequest(event, cfg.req),
                        ![i].stages = RequestStages(event),
                        ![i].log = createLogger(i),
                        ![i].logs = <<LogInfo(createLogger(i), "Request started.")>>]
  /\ UNCHANGED <<cacheObject, job, quote, graph, cfg, containerInjected, buildState>>

\* Request validation settled: return its error, or call getContainerInjected().
AfterRequestValidation(i) ==
  /\ inv[i].pc = "awaitRequestValidation"
  /\ LET rv == inv[i].requestValidation
         got == getContainerInjected(containerInjected)
     IN  IF rv.state = "threw"
           THEN Return(i, INTERNAL_ERROR, <<"validateRequest">>,
                       <<LogError(inv[i].log, "validateRequest",
                                  "Unexpected error validating request")>>)
         ELSE IF IsInvalid(rv)
           THEN Return(i, rv.errorResponse, <<>>, <<>>)
         ELSE inv' = [inv EXCEPT ![i].pc = "awaitContainerInjected",
                                 ![i].request = rv.value,
                                 ![i].lookup = got.lookup,
                                 ![i].containerInjected = got.value,
                                 ![i].stages = Append(inv[i].stages, "getContainerInjected")]
  /\ UNCHANGED <<cacheObject, job, quote, graph, cfg, containerInjected, buildState>>

\* The container lookup settled: it is awaited outside every try block, so a
\* rejection rejects the handler; otherwise getRequestInjected(...) is called.
AfterContainerInjected(i) ==
  /\ inv[i].pc = "awaitContainerInjected"
  /\ IF inv[i].lookup = "rejected"
       THEN Return(i, Rejected, <<"getContainerInjected">>, <<>>)
       ELSE inv' = [inv EXCEPT ![i].pc = "awaitRequestInjected",
                               ![i].stages = Append(inv[i].stages, "getRequestInjected")]
  /\ UNCHANGED <<cacheObject, job, quote, graph, cfg, containerInjected, buildState>>

\* getRequestInjected settled: on rejection INTERNAL_ERROR, else handleRequest
\* is called.
AfterRequestInjected(i, ok) ==
  /\ inv[i].pc = "awaitRequestInjected"
  /\ IF ~ok
       THEN Return(i, INTERNAL_ERROR, <<"getRequestInjected">>,
                   <<LogError(inv[i].log, "getRequestInjected",
                              "Error building request injected.")>>)
       ELSE LET requestInjected == RequestInjected(i)
                log == LogFrom(inv[i].log, requestInjected)
            IN  inv' = [inv EXCEPT
                  ![i].pc = "awaitHandleRequest",
                  ![i].requestInjected = TRUE,
                  ![i].rinj = requestInjected,
                  ![i].log = log,
                  ![i].logs = Append(inv[i].logs, LogInfo(log, "Invoking handle request")),
                  ![i].params = Params(inv[i].request, inv[i].containerInjected,
                                       requestInjected),
                  ![i].stages = Append(inv[i].stages, "handleRequest")]
  /\ UNCHANGED <<cacheObject, job, quote, graph, cfg, containerInjected, buildState>>

\* handleRequest settled with r: an exception gives INTERNAL_ERROR, an
\* ErrorResponse is passed through, a Response goes to parseAndValidateResponse.
AfterHandleRequest(i, r) ==
  /\ inv[i].pc = "awaitHandleRequest"
  /\ IF r.outcome = "throw"
       THEN inv' = [inv EXCEPT ![i].pc = "returned", ![i].result = INTERNAL_ERROR,
                               ![i].handleRequestResult = r,
                               ![i].thrown = Append(inv[i].thrown, "handleRequest"),
                               ![i].logs = Append(inv[i].logs,
                                  LogError(inv[i].log, "handleRequest",
                                           "Unexpected error in handler"))]
     ELSE IF isError(r)
       THEN inv' = [inv EXCEPT ![i].pc = "returned", ![i].result = ErrorPassThrough(r),
                               ![i].handleRequestResult = r]
     ELSE inv' = [inv EXCEPT ![i].pc = "awaitResponseValidation",
                             ![i].handleRequestResult = r,
                             ![i].statusCode = r.statusCode,
                             ![i].body = r.body,
                             ![i].responseValidation = parseAndValidateResponse(r.body, cfg.resp),
                             ![i].stages = Append(inv[i].stages, "validateResponse")]
  /\ UNCHANGED <<cacheObject, job, quote, graph, cfg, containerInjected, buildState>>

\* Response validation settled: return its error, or the serialized response.
AfterResponseValidation(i) ==
  /\ inv[i].pc = "awaitResponseValidation"
  /\ LET rv == inv[i].responseValidation
     IN  IF rv.state = "threw"
           THEN Return(i, INTERNAL_ERROR, <<"validateResponse">>,
                       <<LogError(inv[i].log, "validateResponse",
                                  "Unexpected error in handler")>>)
         ELSE IF IsInvalid(rv)
           THEN Return(i, rv.errorResponse, <<>>, <<>>)
         ELSE inv' = [inv EXCEPT ![i].pc = "returned",
                                 ![i].result = Result(inv[i].statusCode, JSONstringify(rv.value)),
                                 ![i].stages = Append(inv[i].stages, "respond")]
  /\ UNCHANGED <<cacheObject, job, quote, graph, cfg, containerInjected, buildState>>

\* The invocation is over; its locals are gone and the host may invoke again.
Finish(i) ==
  /\ inv[i].pc = "returned"
  /\ inv' = [inv EXCEPT ![i] = Idle]
  /\ UNCHANGED <<cacheObject, job, quote, graph, cfg, containerInjected, buildState>>

NextOver(events, handleResults) ==
  \/ \E b \in Builds : BuildCall(b)
  \/ \E b \in Builds : BuildResolve(b)
  \/ \E b \in Builds : BuildReject(b)
  \/ \E i \in Invocations, event \in events : Invoke(i, event)
  \/ \E i \in Invocations : AfterRequestValidation(i)
  \/ \E i \in Invocations : AfterContainerInjected(i)
  \/ \E i \in Invocations, ok \in BOOLEAN : AfterRequestInjected(i, ok)
  \/ \E i \in Invocations, r \in handleResults : AfterHandleRequest(i, r)
  \/ \E i \in Invocations : AfterResponseValidation(i)
  \/ \E i \in Invocations : Finish(i)

Next == NextOver(Events, HandleResults)

Spec == Init /\ [][Next]_vars

\* Overlapping invocations, over one event and one handleRequest result of
\* each kind.
ConcEvents ==
  { Event(TRUE, <<>>),
    Event(FALSE, JSONstringify(JSObject(<<Entry("amount", "string", "50")>>))) }

ConcHandleResults ==
  { HandleResult("success", 200, JSObject(<<Entry("quote", "string", "47")>>), "", FALSE, ""),
    HandleResult("error", 404, Undefined, "NO_ROUTE", TRUE, "No route found"),
    HandleResult("throw", 0, Undefined, "", FALSE, "") }

NextConc == NextOver(ConcEvents, ConcHandleResults)

SpecConc == InitConc /\ [][NextConc]_vars

\* ---------------------------------------------- QuoteHandler.handleRequest
\* The router gave a swap route: nodes, edges and tokenSet start empty.
AssembleStart ==
  /\ graph.pc = "idle"
  /\ \E type \in TradeTypes, routeAmounts \in RouteAmountsChoices :
       graph' = [NoAssembly EXCEPT !.pc = "path", !.type = type,
                                   !.routeAmounts = routeAmounts, !.p = 1]
  /\ UNCHANGED <<cacheObject, job, quote, cfg, containerInjected, buildState, inv>>

\* The next routeAmount: its first token becomes prevToken and, unless seen, a
\* node.
PathStart ==
  /\ graph.pc = "path"
  /\ graph.p <= Len(graph.routeAmounts)
  /\ LET route == graph.routeAmounts[graph.p].route
         prevToken == route.tokenPath[1]
         seen == has(graph.tokenSet, prevToken.address)
     IN  graph' = [graph EXCEPT
           !.prevToken = prevToken,
           !.tokenSet = IF seen THEN @ ELSE @ \cup {prevToken.address},
           !.nodes = IF seen THEN @ ELSE push(@, TokenNode(prevToken, prevToken.decimals)),
           !.i = 0,
           !.pc = IF 0 < Len(route.pools) THEN "hop" ELSE "path",
           !.p = IF 0 < Len(route.pools) THEN @ ELSE @ + 1]
  /\ UNCHANGED <<cacheObject, job, quote, cfg, containerInjected, buildState, inv>>

\* Pool i of the path: the token after it becomes a node unless seen (with the
\* decimals of prevToken), the pool becomes an edge, prevToken moves on.
Hop ==
  /\ graph.pc = "hop"
  /\ LET routeAmount == graph.routeAmounts[graph.p]
         tokenPath == routeAmount.route.tokenPath
         pools == routeAmount.route.pools
         i == graph.i
         nextPool == pools[i + 1]
         nextToken == tokenPath[i + 2]
         seen == has(graph.tokenSet, nextToken.address)
         amountIn == edgeAmountIn(graph.type, i, routeAmount.amount, routeAmount.quote)
         amountOut == edgeAmountOut(graph.type, i, Len(pools),
                                    routeAmount.amount, routeAmount.quote)
     IN  graph' = [graph EXCEPT
           !.tokenSet = IF seen THEN @ ELSE @ \cup {nextToken.address},
           !.nodes = IF seen THEN @
                     ELSE push(@, TokenNode(nextToken, graph.prevToken.decimals)),
           !.edges = push(@, PoolEdge(nextPool, tokenPath[i + 1], nextToken,
                                      amountIn, amountOut)),
           !.prevToken = nextToken,
           !.i = i + 1,
           !.pc = IF i + 1 < Len(pools) THEN "hop" ELSE "path",
           !.p = IF i + 1 < Len(pools) THEN @ ELSE @ + 1]
  /\ UNCHANGED <<cacheObject, job, quote, cfg, containerInjected, buildState, inv>>

\* No routeAmount is left: nodes and edges go into the result as routeNodes
\* and routeEdges.
AssembleReturn ==
  /\ graph.pc = "path"
  /\ graph.p > Len(graph.routeAmounts)
  /\ graph' = [graph EXCEPT !.pc = "done"]
  /\ UNCHANGED <<cacheObject, job, quote, cfg, containerInjected, buildState, inv>>

\* The call is over and its locals are gone.
AssembleOver ==
  /\ graph.pc = "done"
  /\ graph' = NoAssembly
  /\ UNCHANGED <<cacheObject, job, quote, cfg, containerInjected, buildState, inv>>

InitGraph ==
  /\ cacheObject = NoObject
  /\ job = NoJob
  /\ quote = NoQuote
  /\ graph = NoAssembly
  /\ cfg = [req |-> "null", resp |-> "schema"]
  /\ containerInjected = 0
  /\ buildState = [b \in Builds |-> "notcalled"]
  /\ inv = [i \in Sequential |-> Idle]

NextGraph ==
  \/ AssembleStart
  \/ PathStart
  \/ Hop
  \/ AssembleReturn
  \/ AssembleOver

SpecGraph == InitGraph /\ [][NextGraph]_vars

\* handleRequest is called: tokenStringToCurrency tries the token list for
\* both tokens and, unless both are found, asks the chain for the rest.
QuoteInvoke ==
  /\ quote.pc = "idle"
  /\ \E tokenInRaw \in TokenRaws, tokenOutRaw \in TokenRaws, type \in TradeTypes :
       LET currencyIn == tryTokenList(tokenInRaw)
           currencyOut == tryTokenList(tokenOutRaw)
           both == currencyIn # NoToken /\ currencyOut # NoToken
       IN  quote' = [NoQuote EXCEPT
             !.pc = IF both THEN "awaitTokens" ELSE "awaitGetTokens",
             !.tokenInRaw = tokenInRaw, !.tokenOutRaw = tokenOutRaw, !.type = type,
             !.currencyIn = currencyIn, !.currencyOut = currencyOut]
  /\ UNCHANGED <<cacheObject, job, graph, cfg, containerInjected, buildState, inv>>

\* tokenAccessor.getTokenByAddress(raw): only addresses were fetched.
getTokenByAddress(raw) ==
  IF isAddress(raw) THEN Lookup(ChainTokens, "address", raw) ELSE NoToken

\* tokenProvider.getTokens(tokensToFetch) settled: a rejection is thrown by
\* handleRequest, otherwise the currencies still missing are looked up.
AfterGetTokens(ok) ==
  /\ quote.pc = "awaitGetTokens"
  /\ IF ~ok
       THEN quote' = [quote EXCEPT !.pc = "returned",
                                   !.result = QuoteResult("throw", 0, "")]
       ELSE quote' = [quote EXCEPT
              !.pc = "awaitTokens",
              !.currencyIn = IF @ = NoToken THEN getTokenByAddress(quote.tokenInRaw) ELSE @,
              !.currencyOut = IF @ = NoToken THEN getTokenByAddress(quote.tokenOutRaw) ELSE @]
  /\ UNCHANGED <<cacheObject, job, graph, cfg, containerInjected, buildState, inv>>

\* tokenStringToCurrency returned: a domain error is returned, otherwise the
\* router is called (routeExactIn or routeExactOut by type).
AfterTokens ==
  /\ quote.pc = "awaitTokens"
  /\ LET error == DomainError(quote.currencyIn, quote.currencyOut)
     IN  IF error # NoQuoteResult
           THEN quote' = [quote EXCEPT !.pc = "returned", !.resolved = TRUE,
                                       !.result = error]
           ELSE quote' = [quote EXCEPT !.pc = "awaitRoute", !.resolved = TRUE,
                                       !.routerCalls = @ + 1]
  /\ UNCHANGED <<cacheObject, job, graph, cfg, containerInjected, buildState, inv>>

\* The routes the router may give a quote: one path.
QuoteRouteChoices ==
  { <<RouteAmount(Route(path), 51, 71)>> : path \in TokenPaths }

\* The router settled: a rejection is thrown, null gives NO_ROUTE, a swap
\* route starts the route graph.
AfterRoute(outcome) ==
  /\ quote.pc = "awaitRoute"
  /\ IF outcome = "rejected"
       THEN /\ quote' = [quote EXCEPT !.pc = "returned",
                                      !.result = QuoteResult("throw", 0, "")]
            /\ UNCHANGED graph
     ELSE IF outcome = "null"
       THEN /\ quote' = [quote EXCEPT !.pc = "returned", !.swapRoute = "null",
                                      !.result = QuoteResult("error", 404, "NO_ROUTE")]
            /\ UNCHANGED graph
     ELSE /\ quote' = [quote EXCEPT !.pc = "assembling", !.swapRoute = "found"]
          /\ \E routeAmounts \in QuoteRouteChoices :
               graph' = [NoAssembly EXCEPT !.pc = "path", !.type = quote.type,
                                           !.routeAmounts = routeAmounts, !.p = 1]
  /\ UNCHANGED <<cacheObject, job, cfg, containerInjected, buildState, inv>>

\* return { statusCode: 200, body: result }
QuoteRespond ==
  /\ quote.pc = "assembling"
  /\ graph.pc = "done"
  /\ quote' = [quote EXCEPT !.pc = "returned",
                            !.result = QuoteResult("success", 200, "")]
  /\ graph' = NoAssembly
  /\ UNCHANGED <<cacheObject, job, cfg, containerInjected, buildState, inv>>

\* The call is over.
QuoteOver ==
  /\ quote.pc = "returned"
  /\ quote' = NoQuote
  /\ UNCHANGED <<cacheObject, job, graph, cfg, containerInjected, buildState, inv>>

NextQuote ==
  \/ QuoteInvoke
  \/ \E ok \in BOOLEAN : AfterGetTokens(ok)
  \/ AfterTokens
  \/ \E outcome \in {"rejected", "null", "found"} : AfterRoute(outcome)
  \/ PathStart
  \/ Hop
  \/ AssembleReturn
  \/ QuoteRespond
  \/ QuoteOver

SpecQuote == InitGraph /\ [][NextQuote]_vars

\* ------------------------------------------------------- pool-cache handler
\* The job is invoked: the first page is requested at skip 0.
JobInvoke ==
  /\ job.pc = "idle"
  /\ job' = [NoJob EXCEPT !.pc = "awaitRequest", !.offsets = <<0>>,
                          !.before = cacheObject]
  /\ UNCHANGED <<cacheObject, quote, graph, cfg, containerInjected, buildState, inv>>

\* The page request rejected: the handler rejects.
RequestFailed ==
  /\ job.pc = "awaitRequest"
  /\ job' = [job EXCEPT !.pc = "failed", !.requestFailed = TRUE]
  /\ UNCHANGED <<cacheObject, quote, graph, cfg, containerInjected, buildState, inv>>

\* A page of n pools arrived: it is appended and skip moves on; a page with
\* pools is followed by the next request, an empty one ends the loop, and then
\* the pools, if any, are put to S3.
AfterRequest(n) ==
  /\ job.pc = "awaitRequest"
  /\ n > 0 => Len(job.offsets) <= MaxRequests
  /\ LET poolsPage == Page(job.skip, n)
         pools == job.pools \o poolsPage
         skip == skipNext(job.skip)
         received == [job EXCEPT !.poolsPage = poolsPage, !.pools = pools,
                                 !.skip = skip, !.pages = Append(@, poolsPage)]
     IN  IF Len(poolsPage) > 0
           THEN job' = [received EXCEPT !.offsets = Append(@, skip)]
         ELSE IF nothing(pools)
           THEN job' = [received EXCEPT !.pc = "returned"]
         ELSE job' = [received EXCEPT !.pc = "awaitPut", !.puts = @ + 1]
  /\ UNCHANGED <<cacheObject, quote, graph, cfg, containerInjected, buildState, inv>>

\* putObject settled: S3 stored the body or not, and an unstored body is
\* always reported as a failure.
AfterPut(ok, stored) ==
  /\ job.pc = "awaitPut"
  /\ ok => stored
  /\ job' = [job EXCEPT !.pc = IF ok THEN "returned" ELSE "failed",
                        !.writes = IF stored THEN @ + 1 ELSE @]
  /\ cacheObject' = IF stored
                      THEN [exists |-> TRUE, body |-> StringifyArray(job.pools)]
                      ELSE cacheObject
  /\ UNCHANGED <<quote, graph, cfg, containerInjected, buildState, inv>>

\* The run is over; the schedule may start the next.
JobOver ==
  /\ job.pc \in {"returned", "failed"}
  /\ job' = NoJob
  /\ UNCHANGED <<cacheObject, quote, graph, cfg, containerInjected, buildState, inv>>

NextJob ==
  \/ JobInvoke
  \/ RequestFailed
  \/ \E n \in 0..MaxPageLen : AfterRequest(n)
  \/ \E ok \in BOOLEAN, stored \in BOOLEAN : AfterPut(ok, stored)
  \/ JobOver

SpecJob == InitGraph /\ [][NextJob]_vars

\* ------------------------------------------------------------------ claims
\* The JSON values the events serialize, and the value an event's body is the
\* serialization of.
JSONValues == RequestObjects \cup { JSScalar("number", "50") }

Parseable(event) ==
  ~event.bodyNull /\ \E value \in JSONValues : JSONstringify(value) = event.body

RawValue(event) == CHOOSE value \in JSONValues : JSONstringify(value) = event.body

Ran(i, stage) == \E n \in 1..Len(inv[i].stages) : inv[i].stages[n] = stage

Returned(i) == inv[i].pc = "returned"

StageOrder ==
  << "parse", "validateRequest", "getContainerInjected", "getRequestInjected",
     "handleRequest", "validateResponse", "respond" >>

\* The stages after the one an invocation's error response came from.
StagesAfterError(i) ==
  IF inv[i].requestValidation.state \in {"invalid", "threw"}
    THEN {"getContainerInjected", "getRequestInjected", "handleRequest",
          "validateResponse", "respond"}
  ELSE IF "getRequestInjected" \in {inv[i].thrown[n] : n \in 1..Len(inv[i].thrown)}
    THEN {"handleRequest", "validateResponse", "respond"}
  ELSE IF inv[i].handleRequestResult.outcome \in {"error", "throw"}
    THEN {"validateResponse", "respond"}
  ELSE IF inv[i].responseValidation.state \in {"invalid", "threw"}
    THEN {"respond"}
  ELSE {}

\* C1: every invocation that ends has produced one response, and no stage
\* after the one that ended it with an error response has run.
C1_OneResponseNoLaterStage ==
  \A i \in Invocations :
    Returned(i) =>
      /\ inv[i].result.kind = "response"
      /\ \A stage \in StagesAfterError(i) : ~Ran(i, stage)

\* C2: an invocation in which any stage threw ends with the generic
\* INTERNAL_ERROR response; no exception reaches the handler's caller.
C2_ExceptionsBecomeInternalError ==
  \A i \in Invocations :
    (Returned(i) /\ inv[i].thrown # <<>>) => inv[i].result = INTERNAL_ERROR

\* A step in which invocation i calls getContainerInjected().
CallsGetContainerInjected(i) ==
  inv[i].pc = "awaitRequestValidation" /\ inv'[i].pc = "awaitContainerInjected"

\* C3: getContainerInjected() rejects exactly when no build() has completed, and
\* all the invocations it resolved for hold the same container object.
C3_SameContainerForAll ==
  /\ [](\A i, j \in Invocations :
          (inv[i].lookup = "resolved" /\ inv[j].lookup = "resolved")
            => inv[i].containerInjected = inv[j].containerInjected)
  /\ [][\A i \in Invocations :
          CallsGetContainerInjected(i) =>
            (inv'[i].lookup = "rejected"
               <=> \A b \in Builds : buildState[b] # "completed")]_vars

\* C4: only the first build() takes effect: no later call completes and the
\* cached container is the first call's.
C4_BuildOnce ==
  /\ \A b \in Builds : b > 1 => buildState[b] # "completed"
  /\ containerInjected \in {0, 1}

\* C5: the stages an invocation has run are a prefix of the fixed order;
\* handleRequest runs only on a valid request with request dependencies
\* built, validateResponse only on a success result of handleRequest, and
\* respond only on a valid response.
C5_StagesInOrder ==
  \A i \in Invocations :
    /\ Len(inv[i].stages) <= Len(StageOrder)
    /\ \A n \in 1..Len(inv[i].stages) : inv[i].stages[n] = StageOrder[n]
    /\ Ran(i, "handleRequest") =>
         inv[i].requestValidation.state = "valid" /\ inv[i].requestInjected
    /\ Ran(i, "validateResponse") =>
         /\ inv[i].handleRequestResult.outcome = "success"
         /\ inv[i].handleRequestResult.statusCode \in SuccessStatusCodes
    /\ Ran(i, "respond") => inv[i].responseValidation.state = "valid"

\* The whole pipeline ran, to a success response.
C5_Witness ==
  \E i \in Invocations :
    /\ Returned(i)
    /\ inv[i].stages = StageOrder
    /\ inv[i].result.statusCode \in SuccessStatusCodes

\* C6: an event whose body is no JSON text (a missing body included) gets
\* 422 with an empty body, and neither getRequestInjected nor handleRequest
\* is run for it.
C6_Unparseable422 ==
  \A i \in Invocations :
    (inv[i].pc # "idle" /\ ~Parseable(inv[i].event)) =>
      /\ ~Ran(i, "getRequestInjected")
      /\ ~Ran(i, "handleRequest")
      /\ inv[i].pc \in {"awaitRequestValidation", "returned"}
      /\ Returned(i) => inv[i].result = Result(422, <<>>)

\* A missing body was answered 422.
C6_Witness ==
  \E i \in Invocations :
    /\ Returned(i)
    /\ inv[i].event.bodyNull
    /\ inv[i].result.statusCode = 422

\* The validator's verdict on the raw request of an event.
RequestVerdict(event) ==
  JoiValidate(RawValue(event), RequestSchema, TRUE, TRUE).error

\* C7: a body that parses and that the request schema rejects gets 400 whose
\* body is the validator's message, not empty, and handleRequest is not run.
C7_SchemaViolation400 ==
  \A i \in Invocations :
    ( /\ inv[i].pc # "idle"
      /\ cfg.req = "schema"
      /\ Parseable(inv[i].event)
      /\ RequestVerdict(inv[i].event) # NoError ) =>
      /\ ~Ran(i, "handleRequest")
      /\ Returned(i) =>
           LET message == RequestVerdict(inv[i].event)
           IN  /\ inv[i].result = Result(400, <<Text(message.k, message.v)>>)
               /\ message.v # ""

\* A request whose amount is a number was answered 400.
C7_Witness ==
  \E i \in Invocations :
    /\ Returned(i)
    /\ inv[i].result.statusCode = 400
    /\ inv[i].requestValidation.message = Message("amount", "must be a string")

\* C8: a success body the response schema rejects gets 500 with the fixed
\* text "Internal error", the same response whatever the validator's reason.
C8_ResponseViolationGeneric ==
  \A i \in Invocations :
    ( /\ Returned(i)
      /\ cfg.resp = "schema"
      /\ inv[i].handleRequestResult.outcome = "success"
      /\ JoiValidate(inv[i].handleRequestResult.body, ResponseSchema, TRUE, TRUE).error
           # NoError ) =>
      inv[i].result = Result(500, <<Text("", "Internal error")>>)

\* A success body whose quote is a number was answered 500.
C8_Witness ==
  \E i \in Invocations :
    /\ Returned(i)
    /\ inv[i].responseValidation.message = Message("quote", "must be a string")
    /\ inv[i].result.statusCode = 500

\* C9: an ErrorResponse of handleRequest is returned with its statusCode, and
\* its errorCode and detail are what the body decodes to; response validation
\* is not run on it.
C9_ErrorPassedThrough ==
  \A i \in Invocations :
    (Returned(i) /\ inv[i].handleRequestResult.outcome = "error") =>
      LET r == inv[i].handleRequestResult
          decoded == JSONparse(inv[i].result.body)
      IN  /\ inv[i].result.kind = "response"
          /\ inv[i].result.statusCode = r.statusCode
          /\ decoded.ok
          /\ decoded.value.kind = "object"
          /\ KeysOf(decoded.value)
               = IF r.detailDefined THEN {"detail", "errorCode"} ELSE {"errorCode"}
          /\ Get(decoded.value, "errorCode") = Entry("errorCode", "string", r.errorCode)
          /\ r.detailDefined =>
               Get(decoded.value, "detail") = Entry("detail", "string", r.detail)
          /\ ~Ran(i, "validateResponse")
          /\ inv[i].responseValidation = NoValidation

\* A 404 with a detail was passed through.
C9_Witness ==
  \E i \in Invocations :
    /\ Returned(i)
    /\ inv[i].handleRequestResult.outcome = "error"
    /\ inv[i].handleRequestResult.detailDefined
    /\ inv[i].result.statusCode = 404

Unknown(value) == KeysOf(value) \ Declared(RequestSchema)

C11_UnknownResponseFieldsStripped ==
  \A i \in Invocations :
    (Returned(i) /\ Ran(i, "respond") /\ cfg.resp = "schema") =>
      LET given == inv[i].handleRequestResult.body
          decoded == JSONparse(inv[i].result.body)
      IN  /\ decoded.ok
          /\ decoded.value.kind = "object"
          /\ KeysOf(decoded.value) \subseteq Declared(ResponseSchema)
          /\ KeysOf(decoded.value) = KeysOf(given) \cap Declared(ResponseSchema)
          /\ \A k \in KeysOf(decoded.value) : Get(decoded.value, k) = Get(given, k)

\* A success body with an undeclared field was returned without it.
C11_Witness ==
  \E i \in Invocations :
    /\ Returned(i)
    /\ Ran(i, "respond")
    /\ cfg.resp = "schema"
    /\ "poolSecret" \in KeysOf(inv[i].handleRequestResult.body)
    /\ "poolSecret" \notin KeysOf(JSONparse(inv[i].result.body).value)

PipelineErrorStatusCodes == ErrorStatusCodes \cup {422}

\* C12: a response is a success (the serialized response body, status 200 or
\* 202) or an error (status 400, 403, 404, 408, 409, 422 or 500), never both
\* and never another status.
C12_StatusInVariantSet ==
  \A i \in Invocations :
    (Returned(i) /\ inv[i].result.kind = "response") =>
      \/ /\ Ran(i, "respond")
         /\ inv[i].result.statusCode \in SuccessStatusCodes
         /\ inv[i].result.statusCode \notin PipelineErrorStatusCodes
      \/ /\ ~Ran(i, "respond")
         /\ inv[i].result.statusCode \in PipelineErrorStatusCodes
         /\ inv[i].result.statusCode \notin SuccessStatusCodes

\* A 202 success was returned.
C12_Witness ==
  \E i \in Invocations :
    /\ Returned(i)
    /\ Ran(i, "respond")
    /\ inv[i].result.statusCode = 202

\* C14: without a request schema every parseable body is valid and is the
\* request handleRequest gets; without a response schema the success body is
\* returned as handleRequest gave it, no field removed.
C14_AbsentSchemaPassesThrough ==
  \A i \in Invocations :
    /\ (inv[i].pc # "idle" /\ cfg.req = "null" /\ Parseable(inv[i].event)) =>
         /\ inv[i].requestValidation.state = "valid"
         /\ inv[i].requestValidation.value = RawValue(inv[i].event)
         /\ Ran(i, "handleRequest") => inv[i].request = RawValue(inv[i].event)
    /\ (inv[i].handleRequestResult.outcome = "success" /\ cfg.resp = "null") =>
         /\ inv[i].responseValidation.state = "valid"
         /\ Returned(i) =>
              /\ Ran(i, "respond")
              /\ inv[i].result.statusCode = inv[i].handleRequestResult.statusCode
              /\ JSONparse(inv[i].result.body)
                   = [ok |-> TRUE, value |-> inv[i].handleRequestResult.body]

\* Without schemas, a request with an undeclared field and a wrongly typed
\* success body with an undeclared field both went through.
C14_Witness ==
  \E i \in Invocations :
    /\ Returned(i)
    /\ cfg = [req |-> "null", resp |-> "null"]
    /\ Ran(i, "respond")
    /\ "extra" \in KeysOf(inv[i].request)
    /\ "poolSecret" \in KeysOf(JSONparse(inv[i].result.body).value)
    /\ "quote" \in KeysOf(inv[i].handleRequestResult.body)
    /\ Get(inv[i].handleRequestResult.body, "quote").ty = "number"

ErrorEntries(i) == SelectSeq(inv[i].logs, LAMBDA e : e.level = "error")

\* C13: an exception of handleRequest gives exactly one response,
\* INTERNAL_ERROR, and exactly one error-level log record, which carries that
\* exception; every INTERNAL_ERROR response comes with an error-level record
\* of the same invocation carrying the exception that caused it.
C13_ExceptionLoggedOnce ==
  \A i \in Invocations :
    /\ (Returned(i) /\ inv[i].handleRequestResult.outcome = "throw") =>
         /\ inv[i].result = INTERNAL_ERROR
         /\ Len(ErrorEntries(i)) = 1
         /\ ErrorEntries(i)[1].err = "handleRequest"
    /\ (Returned(i) /\ inv[i].result = INTERNAL_ERROR) =>
         /\ inv[i].thrown # <<>>
         /\ \E k \in 1..Len(inv[i].logs) :
              /\ inv[i].logs[k].level = "error"
              /\ inv[i].logs[k].err = inv[i].thrown[Len(inv[i].thrown)]
    /\ inv[i].pc \notin {"idle", "returned"} => ErrorEntries(i) = <<>>

\* handleRequest threw and the invocation answered INTERNAL_ERROR.
C13_Witness ==
  \E i \in Invocations :
    /\ Returned(i)
    /\ inv[i].handleRequestResult.outcome = "throw"
    /\ inv[i].result = INTERNAL_ERROR
    /\ Len(ErrorEntries(i)) = 1

\* C20: until request dependencies are built, a failure to build them
\* included, every log record goes to the logger the invocation created; from
\* then on every record goes to the logger the request dependencies supply.
C20_LoggerSuperseded ==
  \A i \in Invocations :
    /\ (inv[i].pc # "idle" /\ ~inv[i].requestInjected) =>
         /\ inv[i].log = createLogger(i)
         /\ \A k \in 1..Len(inv[i].logs) : inv[i].logs[k].logger = createLogger(i)
    /\ inv[i].requestInjected =>
         /\ inv[i].log = inv[i].rinj.log
         /\ Len(inv[i].logs) >= 2
         /\ inv[i].logs[1].logger = createLogger(i)
         /\ \A k \in 2..Len(inv[i].logs) : inv[i].logs[k].logger = inv[i].rinj.log
    /\ (Returned(i) /\ inv[i].thrown = <<"getRequestInjected">>) =>
         /\ inv[i].logs[Len(inv[i].logs)].level = "error"
         /\ inv[i].logs[Len(inv[i].logs)].logger = createLogger(i)

\* An invocation logged its start to its own logger and, after its request
\* dependencies were built, an exception to the logger they supplied.
C20_Witness ==
  \E i \in Invocations :
    /\ Returned(i)
    /\ inv[i].requestInjected
    /\ Len(inv[i].logs) = 3
    /\ inv[i].logs[1].logger = createLogger(i)
    /\ inv[i].logs[3].level = "error"
    /\ inv[i].logs[3].logger = inv[i].rinj.log
    /\ inv[i].rinj.log # createLogger(i)

Count(seq, x) == Cardinality({ k \in 1..Len(seq) : seq[k] = x })

RECURSIVE TokensFrom(_, _)
TokensFrom(routeAmounts, q) ==
  IF q > Len(routeAmounts) THEN <<>>
  ELSE routeAmounts[q].route.tokenPath \o TokensFrom(routeAmounts, q + 1)

Encountered == TokensFrom(graph.routeAmounts, 1)

Addresses(tokens) == { tokens[k].address : k \in 1..Len(tokens) }

NodesWithId(a) == { k \in 1..Len(graph.nodes) : graph.nodes[k].id = a }

\* C15: no two nodes have the same id, every node id is an address of some
\* path, and the finished node list holds each address of the paths once.
C15_OneNodePerAddress ==
  /\ \A a \in Addresses(Encountered) : Cardinality(NodesWithId(a)) <= 1
  /\ \A k \in 1..Len(graph.nodes) : graph.nodes[k].id \in Addresses(Encountered)
  /\ graph.pc = "done" =>
       \A a \in Addresses(Encountered) : Cardinality(NodesWithId(a)) = 1

\* Two paths through the same intermediate token gave three nodes.
C15_Witness ==
  /\ graph.pc = "done"
  /\ Len(graph.routeAmounts) = 2
  /\ \A q \in 1..2 :
       /\ Len(graph.routeAmounts[q].route.tokenPath) = 3
       /\ graph.routeAmounts[q].route.tokenPath[2].address = "0xB"
  /\ Len(Encountered) = 6
  /\ Len(graph.nodes) = 3

\* The pool hops of the paths in path-then-hop order: path q, hop h (from 1).
RECURSIVE HopsFrom(_, _)
HopsFrom(routeAmounts, q) ==
  IF q > Len(routeAmounts) THEN <<>>
  ELSE [h \in 1..Len(routeAmounts[q].route.pools) |-> [q |-> q, h |-> h]]
         \o HopsFrom(routeAmounts, q + 1)

PoolHops == HopsFrom(graph.routeAmounts, 1)

FirstOccurrence(a) ==
  LET tokens == Encountered
      first == CHOOSE k \in 1..Len(tokens) :
                 /\ tokens[k].address = a
                 /\ \A j \in 1..(k - 1) : tokens[j].address # a
  IN  tokens[first]

\* The symbol half of C17: a node has the symbol of its token's first
\* occurrence.
FirstSeenSymbol ==
  \A k \in 1..Len(graph.nodes) :
    graph.nodes[k].symbol = FirstOccurrence(graph.nodes[k].id).symbol

\* C17: the node of a token carries the symbol and the decimals of that token
\* as it first occurs in path-then-hop order.
C17_FirstSeenMetadata ==
  \A k \in 1..Len(graph.nodes) :
    LET first == FirstOccurrence(graph.nodes[k].id)
    IN  /\ graph.nodes[k].symbol = first.symbol
        /\ graph.nodes[k].decimals = toString(first.decimals)

\* The addresses of a token sequence in first-encounter order.
RECURSIVE FirstEncounters(_, _)
FirstEncounters(tokens, k) ==
  IF k > Len(tokens) THEN <<>>
  ELSE LET rest == FirstEncounters(tokens, k + 1)
           a == tokens[k].address
       IN  <<a>> \o SelectSeq(rest, LAMBDA b : b # a)

IsPrefix(short, long) ==
  /\ Len(short) <= Len(long)
  /\ \A k \in 1..Len(short) : short[k] = long[k]

NodeIds == [k \in 1..Len(graph.nodes) |-> graph.nodes[k].id]

EdgeEnds == [k \in 1..Len(graph.edges) |-> <<graph.edges[k].inId, graph.edges[k].outId>>]

\* The two token addresses of every pool hop, in path-then-hop order.
HopEnds ==
  [k \in 1..Len(PoolHops) |->
     LET tokenPath == graph.routeAmounts[PoolHops[k].q].route.tokenPath
     IN  <<tokenPath[PoolHops[k].h].address, tokenPath[PoolHops[k].h + 1].address>>]

\* C18: the edges are, in path-then-hop order, one per pool hop of every path,
\* from the hop's token to the next token of the path; the nodes are in
\* first-encounter order; both lists only ever grow at the end.
C18_PathThenHopOrder ==
  /\ IsPrefix(EdgeEnds, HopEnds)
  /\ IsPrefix(NodeIds, FirstEncounters(Encountered, 1))
  /\ \A k \in 1..Len(graph.edges) :
       LET hop == PoolHops[k]
           pool == graph.routeAmounts[hop.q].route.pools[hop.h]
       IN  graph.edges[k].id = getPoolAddress(pool.token0, pool.token1, pool.fee)
  /\ graph.pc = "done" =>
       /\ EdgeEnds = HopEnds
       /\ NodeIds = FirstEncounters(Encountered, 1)

\* Two two-pool paths, the second through a token with a different address:
\* four edges, and the nodes 0xA, 0xD, 0xC, 0xB as met.
C18_Witness ==
  /\ graph.pc = "done"
  /\ EdgeEnds = << <<"0xA", "0xD">>, <<"0xD", "0xC">>, <<"0xA", "0xB">>, <<"0xB", "0xC">> >>
  /\ NodeIds = <<"0xA", "0xD", "0xC", "0xB">>

QuoteError(errorCode) == QuoteResult("error", 400, errorCode)

\* C21: once the tokens are resolved, an unresolved input token gives 400
\* TOKEN_IN_INVALID, else an unresolved output token 400 TOKEN_OUT_INVALID,
\* else equal tokens 400 TOKEN_IN_OUT_SAME, each without a router call; the
\* router is called at most once and only for two resolved, different tokens;
\* when it gives no route the result is 404 NO_ROUTE and there is no graph.
C21_DomainErrorsBeforeRouter ==
  /\ quote.resolved =>
       /\ quote.currencyIn = NoToken =>
            /\ quote.routerCalls = 0
            /\ quote.result = QuoteError("TOKEN_IN_INVALID")
       /\ (quote.currencyIn # NoToken /\ quote.currencyOut = NoToken) =>
            /\ quote.routerCalls = 0
            /\ quote.result = QuoteError("TOKEN_OUT_INVALID")
       /\ (quote.currencyIn # NoToken /\ quote.currencyOut # NoToken
             /\ equals(quote.currencyIn, quote.currencyOut)) =>
            /\ quote.routerCalls = 0
            /\ quote.result = QuoteError("TOKEN_IN_OUT_SAME")
  /\ quote.routerCalls <= 1
  /\ quote.routerCalls = 1 =>
       /\ quote.resolved
       /\ quote.currencyIn # NoToken
       /\ quote.currencyOut # NoToken
       /\ ~equals(quote.currencyIn, quote.currencyOut)
  /\ quote.result.outcome = "error" =>
       /\ quote.result.errorCode = "NO_ROUTE" <=> quote.routerCalls = 1
       /\ quote.result.errorCode = "NO_ROUTE" <=> quote.swapRoute = "null"
  /\ quote.swapRoute = "null" =>
       /\ quote.result = QuoteResult("error", 404, "NO_ROUTE")
       /\ graph = NoAssembly
  /\ graph # NoAssembly => quote.swapRoute = "found"

\* Both tokens unknown: TOKEN_IN_INVALID came back, the router never called.
C21_Witness ==
  /\ quote.pc = "returned"
  /\ quote.tokenInRaw = "0xZ"
  /\ quote.tokenOutRaw = "NOPE"
  /\ quote.currencyIn = NoToken
  /\ quote.currencyOut = NoToken
  /\ quote.result = QuoteError("TOKEN_IN_INVALID")
  /\ quote.routerCalls = 0

RECURSIVE Concatenation(_)
Concatenation(lists) ==
  IF Len(lists) = 0 THEN <<>> ELSE lists[1] \o Concatenation(Tail(lists))

EmptyPageReceived ==
  \E k \in 1..Len(job.pages) : job.pages[k] = <<>>

\* C22: the k-th request of a run asks for offset (k - 1) * PAGE_SIZE; only
\* the last page received can be empty, and once it is empty nothing more is
\* requested and the run is out of the paging loop; the pool list is the
\* received pages one after the other.
C22_PagingInOrder ==
  /\ \A k \in 1..Len(job.offsets) : job.offsets[k] = (k - 1) * PAGE_SIZE
  /\ \A k, l \in 1..Len(job.offsets) : k < l => job.offsets[k] < job.offsets[l]
  /\ \A k \in 1..(Len(job.pages) - 1) : job.pages[k] # <<>>
  /\ EmptyPageReceived =>
       /\ Len(job.offsets) = Len(job.pages)
       /\ job.pc \in {"returned", "awaitPut", "failed"}
  /\ job.pc = "awaitRequest" => Len(job.offsets) = Len(job.pages) + 1
  /\ job.pools = Concatenation(job.pages)

\* A run asked for offsets 0, 1000 and 2000, got two pages of pools and an
\* empty one, and left the loop with the three pools in order.
C22_Witness ==
  /\ job.offsets = <<0, 1000, 2000>>
  /\ Len(job.pages) = 3
  /\ Len(job.pages[1]) = 2
  /\ Len(job.pages[2]) = 1
  /\ job.pages[3] = <<>>
  /\ job.pools = <<SubgraphPool("0"), SubgraphPool("1"), SubgraphPool("1000")>>
  /\ job.pc = "awaitPut"

\* C23: a run calls putObject at most once, after an empty page ended the
\* loop and with a pool list that is not empty; the object is stored at most
\* once; a run that gathered no pools or whose page request failed never
\* calls putObject and leaves the object as it found it.
C23_WriteOnceNeverEmpty ==
  /\ job.puts <= 1
  /\ job.writes <= job.puts
  /\ job.puts = 1 =>
       /\ EmptyPageReceived
       /\ job.pools # <<>>
       /\ ~job.requestFailed
  /\ job.writes = 1 =>
       cacheObject = [exists |-> TRUE, body |-> StringifyArray(job.pools)]
  /\ (job.pc # "idle" /\ job.writes = 0) => cacheObject = job.before
  /\ (job.pc = "returned" /\ job.pools = <<>>) =>
       /\ job.puts = 0
       /\ cacheObject = job.before
  /\ job.requestFailed =>
       /\ job.pc = "failed"
       /\ job.puts = 0
       /\ cacheObject = job.before

\* A run found the subgraph empty and left the object an earlier run stored
\* as it was.
C23_Witness ==
  /\ job.pc = "returned"
  /\ job.pools = <<>>
  /\ job.pages = << <<>> >>
  /\ job.puts = 0
  /\ job.before.exists
  /\ cacheObject = job.before

====
